---- MODULE Spec2Model ----
\* Model of src/src/curve/field.rs: the 4-limb field element Fp for
\* p = 2^255 - 19, its carry primitive adc, Fp::add and the two builds of
\* MulAssign (the x86_64 inline-assembly one and the portable schoolbook one).
\*
\* A machine word is modelled by its little-endian byte string, so that every
\* width of the program is kept exactly: a u64 is a sequence of 8 bytes, a
\* u128 a sequence of 16 bytes, and an Fp is a sequence of N u64 limbs.
EXTENDS Integers, Sequences, FiniteSets, TLC

\* ------------------------------------------------------------------------
\* Byte-string arithmetic (exact, unbounded): what the machine operations
\* are defined in terms of.
\* ------------------------------------------------------------------------

\* One byte holds the values 0 .. Byte - 1.
Byte == 256

\* N is the number of limbs in the representation.
N == 4

Max(m, n) == IF m >= n THEN m ELSE n

Zeros(k) == [j \in 1..k |-> 0]

\* Zero-extension of x to n bytes (u128::from, u64::from).
Pad(x, n) == IF Len(x) >= n THEN x ELSE x \o Zeros(n - Len(x))

\* The low n bytes of x (an `as` cast to a narrower type).
Trunc(x, n) == SubSeq(Pad(x, n), 1, n)

\* The bytes of x above the low n (a right shift by 8n bits).
Above(x, n) == IF Len(x) <= n THEN <<>> ELSE SubSeq(x, n + 1, Len(x))

IsZero(x) == \A j \in 1..Len(x) : x[j] = 0

RECURSIVE BytesOf(_, _)
\* The len-byte string of the small number n.
BytesOf(n, len) == IF len = 0 THEN <<>> ELSE <<n % Byte>> \o BytesOf(n \div Byte, len - 1)

RECURSIVE AddInto(_, _, _, _)
\* x + y + c for x, y of equal length: Len(x) + 1 bytes, the last the carry out.
AddInto(x, y, c, acc) ==
    IF Len(acc) = Len(x) THEN Append(acc, c)
    ELSE LET j == Len(acc) + 1
             s == x[j] + y[j] + c
         IN  AddInto(x, y, s \div Byte, Append(acc, s % Byte))

\* The exact sum x + y.
BigAdd(x, y) ==
    LET n == Max(Len(x), Len(y)) IN AddInto(Pad(x, n), Pad(y, n), 0, <<>>)

RECURSIVE ColSum(_, _, _, _)
\* The sum of the byte products x[j] * y[k + 1 - j] of column k, for j from
\* j up to the last byte of x that column k has.
ColSum(x, y, k, j) ==
    IF j > Len(x) \/ j > k THEN 0
    ELSE x[j] * y[k + 1 - j] + ColSum(x, y, k, j + 1)

RECURSIVE MulInto(_, _, _, _)
MulInto(x, y, c, acc) ==
    IF Len(acc) = Len(x) + Len(y) THEN acc
    ELSE LET k == Len(acc) + 1
             s == ColSum(x, y, k, Max(1, k + 1 - Len(y))) + c
         IN  MulInto(x, y, s \div Byte, Append(acc, s % Byte))

\* The exact product x * y, Len(x) + Len(y) bytes.
BigMul(x, y) == MulInto(x, y, 0, <<>>)

RECURSIVE LessFrom(_, _, _)
LessFrom(x, y, j) ==
    IF j = 0 THEN FALSE
    ELSE IF x[j] # y[j] THEN x[j] < y[j]
    ELSE LessFrom(x, y, j - 1)

\* x < y as numbers.
BigLess(x, y) ==
    LET n == Max(Len(x), Len(y)) IN LessFrom(Pad(x, n), Pad(y, n), n)

\* x = y as numbers.
BigEq(x, y) ==
    LET n == Max(Len(x), Len(y)) IN Pad(x, n) = Pad(y, n)

RECURSIVE SubInto(_, _, _, _)
SubInto(x, y, b, acc) ==
    IF Len(acc) = Len(x) THEN acc
    ELSE LET j == Len(acc) + 1
             d == x[j] - y[j] - b
         IN  SubInto(x, y, IF d < 0 THEN 1 ELSE 0, Append(acc, IF d < 0 THEN d + Byte ELSE d))

\* x - y for x >= y.
BigSub(x, y) ==
    LET n == Max(Len(x), Len(y)) IN SubInto(Pad(x, n), Pad(y, n), 0, <<>>)

\* ------------------------------------------------------------------------
\* Machine words
\* ------------------------------------------------------------------------

\* Widths in bytes of u64 and u128.
W64 == 8
W128 == 16

U64Of(n) == BytesOf(n, W64)

\* u64::MAX
MAX64 == [j \in 1..W64 |-> Byte - 1]

\* `x as u64`
AsU64(x) == Trunc(x, W64)

\* u128::from(x)
U128From(x) == Pad(x, W128)

\* `x >> 64`
Shr64(x) == Above(x, W64)

\* Whether the exact value x does not fit the type of w bytes (the operation
\* that produced it overflows: a panic in a debug build, a wrap otherwise).
Overflows(x, w) == ~IsZero(Above(x, w))

\* ------------------------------------------------------------------------
\* adc (field.rs 5-25)
\* ------------------------------------------------------------------------

\* The x86_64 build: _addcarry_u64(carry, a, b, out). The carry flag is set
\* from a non-zero carry-in; out gets the low 64 bits, the flag is returned.
adc_x86_64(carry, a, b) ==
    LET s == AddInto(a, b, IF carry # 0 THEN 1 ELSE 0, <<>>)
    IN  [out |-> AsU64(s), carry |-> s[W64 + 1], overflow |-> FALSE]

\* The portable build with the carry-in left out of the sum.
adc_portable_nocarry(carry, a, b) ==
    LET full_res == AddInto(U128From(a), U128From(b), 0, <<>>)
    IN  [out |-> AsU64(full_res),
         carry |-> Shr64(full_res)[1],
         overflow |-> Overflows(full_res, W128)]

\* The wrong-shift variant of the portable build.
adc_portable_shift63(carry, a, b) ==
    LET full_res == AddInto(U128From(a), U128From(b), carry, <<>>)
    IN  [out |-> AsU64(full_res),
         carry |-> 2 * Shr64(full_res)[1] + (full_res[W64] \div 128),
         overflow |-> Overflows(full_res, W128)]

\* The portable build: the sum in u128, split into low and high halves.
adc_portable(carry, a, b) ==
    LET full_res == AddInto(U128From(a), U128From(b), carry, <<>>)
    IN  [out |-> AsU64(full_res),
         carry |-> Shr64(full_res)[1],
         overflow |-> Overflows(full_res, W128)]

\* adc as compiled for target t.
adc(t, carry, a, b) ==
    IF t = "x86_64" THEN adc_x86_64(carry, a, b) ELSE adc_portable(carry, a, b)

\* ------------------------------------------------------------------------
\* Fp (field.rs 30-36) and the operands the operations are run on
\* ------------------------------------------------------------------------

\* Limb k (counted from 0, as in the source) of the element x.
Limb(x, k) == x[k + 1]

\* The element with limbs [l0, l1, l2, l3].
FpOf(l0, l1, l2, l3) == <<l0, l1, l2, l3>>

\* The 32 bytes of x in memory (little-endian limbs, least significant first).
FpBytes(x) == x[1] \o x[2] \o x[3] \o x[4]

\* Fp::constant()
constant == FpOf(U64Of(255), U64Of(255), U64Of(255), U64Of(255))

\* The first limb of [0u64; 4] and of [0u64; 2 * N].
ZeroLimb == U64Of(0)
ZeroFp == FpOf(ZeroLimb, ZeroLimb, ZeroLimb, ZeroLimb)

\* The top limbs 2^63 - 1 and 2^62 - 1.
Top63 == [j \in 1..W64 |-> IF j = W64 THEN 127 ELSE 255]
Top62 == [j \in 1..W64 |-> IF j = W64 THEN 63 ELSE 255]

\* u64::MAX - n for a small n.
MaxLess(n) == [j \in 1..W64 |-> IF j = 1 THEN 255 - n ELSE 255]

\* The limbs of p = 2^255 - 19.
PLimbs == FpOf(MaxLess(18), MAX64, MAX64, Top63)

\* The limb patterns [n, 0, 0, 0], [u64::MAX; 4] and [u64::MAX, 0, 0, 0].
Small(n) == FpOf(U64Of(n), ZeroLimb, ZeroLimb, ZeroLimb)
AllMax == FpOf(MAX64, MAX64, MAX64, MAX64)
MaxLow == FpOf(MAX64, ZeroLimb, ZeroLimb, ZeroLimb)

\* The operands: the elements the operations of one run may be given.
Operands ==
    << ZeroFp,
       Small(1),
       Small(2),
       constant,
       AllMax,
       MaxLow,
       PLimbs,
       FpOf(MaxLess(37), MAX64, MAX64, MAX64),
       Small(4),
       FpOf(MaxLess(8), MAX64, MAX64, Top62),
       FpOf(U64Of(1), ZeroLimb, MAX64, MAX64),
       FpOf(<<239, 205, 171, 137, 103, 69, 35, 1>>,
            <<16, 50, 84, 118, 152, 186, 220, 254>>,
            <<120, 105, 90, 75, 60, 45, 30, 15>>,
            <<1, 0, 0, 0, 0, 0, 0, 128>>),
       FpOf(ZeroLimb, U64Of(1), ZeroLimb, ZeroLimb),
       FpOf(ZeroLimb, ZeroLimb, ZeroLimb, MAX64),
       FpOf(MAX64, MAX64, ZeroLimb, ZeroLimb),
       FpOf(MaxLess(19), MAX64, MAX64, Top63),
       FpOf(U64Of(38), U64Of(19), MAX64, U64Of(1)),
       FpOf(ZeroLimb, MAX64, ZeroLimb, MAX64) >>

\* How many of the operands a run draws from.
NumOperands == 16

OperandSet == {Operands[k] : k \in 1..NumOperands}

\* What a register an asm! block declares out(reg) may hold on entry: the
\* block reads it before writing it. One entry per choice of the five.
GarbageRegs ==
    << <<ZeroLimb, ZeroLimb, ZeroLimb, ZeroLimb, ZeroLimb>>,
       <<MAX64, MAX64, MAX64, MAX64, MAX64>>,
       <<U64Of(1), ZeroLimb, MAX64, ZeroLimb, U64Of(1)>> >>

\* How many of the register contents a run draws from.
NumGarbage == 2

GarbageSet == {GarbageRegs[k] : k \in 1..NumGarbage}

\* ------------------------------------------------------------------------
\* State
\* ------------------------------------------------------------------------

VARIABLES
    target,     \* the build: "x86_64" or "portable" (the cfg attributes)
    op,         \* the operation called: "adc", "add" or "mul"
    pc,         \* the place in it
    i,          \* the loop index, or the position in the unrolled schedule
    self,       \* the receiver
    other,      \* the second operand
    carry,      \* the u8 carry of add and of adc
    low,        \* the scratch buffer of the portable mul_assign
    r0, r1, r2, \* its 192-bit accumulator
    out,        \* the 8-limb buffer of the x86_64 mul_assign
    carry64,    \* the u64 carry of the reduction fold
    a0, b0,     \* the operands as given (history)
    cin,        \* the carry-in as given (history)
    high,       \* the high half of the product when the fold starts (history)
    overflowed, \* an arithmetic operation overflowed its type (history)
    adc_pre     \* every call of adc so far had a carry of 0 or 1 (history)

vars == <<target, op, pc, i, self, other, carry, low, r0, r1, r2, out, carry64,
          a0, b0, cin, high, overflowed, adc_pre>>

Init ==
    /\ target \in {"x86_64", "portable"}
    /\ op \in {"adc", "add", "mul"}
    /\ self \in OperandSet
    /\ other \in OperandSet
    /\ cin \in {0, 1}
    /\ op # "adc" => cin = 0
    /\ carry = cin
    /\ pc = "start"
    /\ i = 0
    /\ low = ZeroFp
    /\ r0 = ZeroLimb /\ r1 = ZeroLimb /\ r2 = ZeroLimb
    /\ out = [k \in 1..(2 * N) |-> ZeroLimb]
    /\ carry64 = ZeroLimb
    /\ a0 = self /\ b0 = other
    /\ high = ZeroFp
    /\ overflowed = FALSE
    /\ adc_pre = TRUE

\* ------------------------------------------------------------------------
\* A call of adc on the first limbs of the operands
\* ------------------------------------------------------------------------

AdcCall ==
    /\ op = "adc" /\ pc = "start"
    /\ \E res \in {adc(target, carry, Limb(self, 0), Limb(other, 0))} :
           /\ self' = [self EXCEPT ![1] = res.out]
           /\ carry' = res.carry
           /\ overflowed' = (overflowed \/ res.overflow)
           /\ adc_pre' = (adc_pre /\ carry \in {0, 1})
    /\ pc' = "done"
    /\ UNCHANGED <<target, op, i, other, low, r0, r1, r2, out, carry64, a0, b0, cin, high>>

\* ------------------------------------------------------------------------
\* Fp::add (field.rs 52-60)
\* ------------------------------------------------------------------------

\* One pass of the loop with the carry dropped between limbs.
add_limb_nochain(t, c, x, y) == adc(t, 0, x, y)

\* One pass of the loop: carry = adc(carry, self.limbs[i], other.limbs[i], &mut self.limbs[i])
add_limb(t, c, x, y) == adc(t, c, x, y)

AddStep ==
    /\ op = "add"
    /\ \/ pc = "start" /\ i = 0
       \/ pc = "add"
    /\ i < 4
    /\ \E res \in {add_limb(target, carry, Limb(self, i), Limb(other, i))} :
           /\ self' = [self EXCEPT ![i + 1] = res.out]
           /\ carry' = res.carry
           /\ overflowed' = (overflowed \/ res.overflow)
           /\ adc_pre' = (adc_pre /\ carry \in {0, 1})
    /\ i' = i + 1
    /\ pc' = IF i + 1 < 4 THEN "add" ELSE "done"
    /\ UNCHANGED <<target, op, other, low, r0, r1, r2, out, carry64, a0, b0, cin, high>>

\* ------------------------------------------------------------------------
\* The portable MulAssign (field.rs 120-213)
\* ------------------------------------------------------------------------

\* multiply_in with the carry out of r1 dropped instead of added to r2.
multiply_in_nocarry(a, b, x0, x1, x2) ==
    LET uv == BigMul(a, b)
        c1 == adc_portable(0, AsU64(uv), x0)
        c2 == adc_portable(c1.carry, AsU64(Shr64(uv)), x1)
    IN  [r0 |-> c1.out, r1 |-> c2.out, r2 |-> x2,
         overflow |-> c1.overflow \/ c2.overflow,
         adc_pre |-> c1.carry \in {0, 1}]

\* multiply_in: u:v = a * b, added to r2:r1:r0.
multiply_in(a, b, x0, x1, x2) ==
    LET uv == BigMul(a, b)
        c1 == adc_portable(0, AsU64(uv), x0)
        c2 == adc_portable(c1.carry, AsU64(Shr64(uv)), x1)
        s2 == AddInto(x2, U64Of(c2.carry), 0, <<>>)
    IN  [r0 |-> c1.out, r1 |-> c2.out, r2 |-> AsU64(s2),
         overflow |-> c1.overflow \/ c2.overflow \/ Overflows(s2, W64),
         adc_pre |-> c1.carry \in {0, 1}]

\* propagate: limb = r0, and r2:r1:r0 becomes 0:r2:r1.
propagate(x0, x1, x2) == [limb |-> x0, r0 |-> x1, r1 |-> x2, r2 |-> ZeroLimb]

MI(si, oj) == [step |-> "multiply_in", s |-> si, o |-> oj, to |-> "none"]
PR(buf, k) == [step |-> "propagate", s |-> k, o |-> k, to |-> buf]

\* The schedule with the product self.limbs[2] * other.limbs[0] left out.
Schedule_missing_product ==
    << MI(0, 0), PR("low", 0),
       MI(0, 1), MI(1, 0), PR("low", 1),
       MI(0, 2), MI(1, 1), PR("low", 2),
       MI(0, 3), MI(1, 2), MI(2, 1), MI(3, 0), PR("low", 3),
       MI(1, 3), MI(2, 2), MI(3, 1), PR("self", 0),
       MI(2, 3), MI(3, 2), PR("self", 1),
       MI(3, 3), PR("self", 2) >>

\* The unrolled schedule of lines 167-195, in order.
Schedule ==
    << MI(0, 0), PR("low", 0),
       MI(0, 1), MI(1, 0), PR("low", 1),
       MI(0, 2), MI(1, 1), MI(2, 0), PR("low", 2),
       MI(0, 3), MI(1, 2), MI(2, 1), MI(3, 0), PR("low", 3),
       MI(1, 3), MI(2, 2), MI(3, 1), PR("self", 0),
       MI(2, 3), MI(3, 2), PR("self", 1),
       MI(3, 3), PR("self", 2) >>

\* The place after step k of the schedule.
AfterStep(k) == IF k < Len(Schedule) THEN "schoolbook" ELSE "store_top"

AtStep(kind) ==
    /\ op = "mul" /\ target = "portable"
    /\ \/ pc = "start" /\ i = 0
       \/ pc = "schoolbook"
    /\ i < Len(Schedule)
    /\ Schedule[i + 1].step = kind

MultiplyInStep ==
    /\ AtStep("multiply_in")
    /\ \E res \in {multiply_in(Limb(self, Schedule[i + 1].s),
                                 Limb(other, Schedule[i + 1].o), r0, r1, r2)} :
           /\ r0' = res.r0 /\ r1' = res.r1 /\ r2' = res.r2
           /\ overflowed' = (overflowed \/ res.overflow)
           /\ adc_pre' = (adc_pre /\ res.adc_pre)
    /\ i' = i + 1
    /\ pc' = AfterStep(i + 1)
    /\ UNCHANGED <<target, op, self, other, carry, low, out, carry64, a0, b0, cin, high>>

PropagateStep ==
    /\ AtStep("propagate")
    /\ LET st == Schedule[i + 1]
           res == propagate(r0, r1, r2)
       IN  /\ r0' = res.r0 /\ r1' = res.r1 /\ r2' = res.r2
           /\ IF st.to = "low"
              THEN low' = [low EXCEPT ![st.s + 1] = res.limb] /\ self' = self
              ELSE self' = [self EXCEPT ![st.s + 1] = res.limb] /\ low' = low
    /\ i' = i + 1
    /\ pc' = AfterStep(i + 1)
    /\ UNCHANGED <<target, op, other, carry, out, carry64, a0, b0, cin, high,
                   overflowed, adc_pre>>

\* self.limbs[3] = r0, and the fold's carry is set to 0.
StoreTop ==
    /\ op = "mul" /\ target = "portable" /\ pc = "store_top"
    /\ self' = [self EXCEPT ![4] = r0]
    /\ high' = self'
    /\ carry64' = ZeroLimb
    /\ i' = 0
    /\ pc' = "fold"
    /\ UNCHANGED <<target, op, other, carry, low, r0, r1, r2, out, a0, b0, cin,
                   overflowed, adc_pre>>

\* The multiplier of the fold: 2^256 = 2 * (2^255 - 19) + 38.
FoldFactor == 38

\* The fold step with the carry out not passed on.
fold_step_nocarry(c, lo, hi) ==
    LET prod == BigMul(<<FoldFactor>>, U128From(hi))
        sum == BigAdd(BigAdd(U128From(c), U128From(lo)), Trunc(prod, W128))
        full_res == Trunc(sum, W128)
    IN  [limb |-> AsU64(full_res), carry |-> ZeroLimb,
         overflow |-> Overflows(prod, W128) \/ Overflows(sum, W128)]

\* The fold step with the limb stored untruncated.
fold_step_wide(c, lo, hi) ==
    LET prod == BigMul(<<FoldFactor>>, U128From(hi))
        sum == BigAdd(BigAdd(U128From(c), U128From(lo)), Trunc(prod, W128))
        full_res == Trunc(sum, W128)
    IN  [limb |-> full_res, carry |-> AsU64(Shr64(full_res)),
         overflow |-> Overflows(prod, W128) \/ Overflows(sum, W128)]

\* One step of the reduction fold:
\*   full_res = u128::from(carry) + u128::from(lo) + 38 * u128::from(hi)
\*   limb = full_res as u64;  carry = (full_res >> 64) as u64
fold_step(c, lo, hi) ==
    LET prod == BigMul(<<FoldFactor>>, U128From(hi))
        sum == BigAdd(BigAdd(U128From(c), U128From(lo)), Trunc(prod, W128))
        full_res == Trunc(sum, W128)
    IN  [limb |-> AsU64(full_res), carry |-> AsU64(Shr64(full_res)),
         overflow |-> Overflows(prod, W128) \/ Overflows(sum, W128)]

FoldStep ==
    /\ op = "mul" /\ target = "portable" /\ pc = "fold"
    /\ i < 4
    /\ \E res \in {fold_step(carry64, Limb(low, i), Limb(self, i))} :
           /\ self' = [self EXCEPT ![i + 1] = res.limb]
           /\ carry64' = res.carry
           /\ overflowed' = (overflowed \/ res.overflow)
    /\ i' = i + 1
    /\ pc' = IF i + 1 < 4 THEN "fold" ELSE "done"
    /\ UNCHANGED <<target, op, other, carry, low, r0, r1, r2, out, a0, b0, cin, high,
                   adc_pre>>

\* ------------------------------------------------------------------------
\* The x86_64 MulAssign (field.rs 71-118)
\* ------------------------------------------------------------------------

\* The 64-bit word at byte offset k of the bytes mem: the operand [{7} + k].
mem64(mem, k) == SubSeq(mem, k + 1, k + W64)

\* mulx hi, lo, src: hi:lo = rdx * src, flags untouched.
mulx(rdx, src) ==
    LET prod == BigMul(rdx, src)
    IN  [lo |-> AsU64(prod), hi |-> AsU64(Shr64(prod))]

\* adcx dst, src (flag CF) and adox dst, src (flag OF): dst += src + flag,
\* the flag becoming the carry out.
add_flag(dst, src, flag) ==
    LET s == AddInto(dst, src, flag, <<>>)
    IN  [reg |-> AsU64(s), flag |-> s[W64 + 1]]

\* The asm! block of one row: rdx = self.limbs[i], mem = the bytes of
\* other.limbs, g = what the five out(reg) registers {0}..{4} hold on entry.
\* `test rax, rax` clears CF and OF. The result is the five registers.
asm_row(rdx, mem, g) ==
    LET m0 == mulx(rdx, mem64(mem, 0))
        m1 == mulx(rdx, mem64(mem, 1))
        m2 == mulx(rdx, mem64(mem, 2))
        m3 == mulx(rdx, mem64(mem, 3))
        c0 == add_flag(g[1], m0.lo, 0)
        o0 == add_flag(g[2], m0.hi, 0)
        c1 == add_flag(o0.reg, m1.lo, c0.flag)
        o1 == add_flag(g[3], m1.hi, o0.flag)
        c2 == add_flag(o1.reg, m2.lo, c1.flag)
        o2 == add_flag(g[4], m2.hi, o1.flag)
        c3 == add_flag(o2.reg, m3.lo, c2.flag)
        o3 == add_flag(g[5], m3.hi, o2.flag)
        c4 == add_flag(o3.reg, ZeroLimb, c3.flag)
    IN  <<c0.reg, c1.reg, c2.reg, c3.reg, c4.reg>>

\* One pass of the loop over the rows: the registers are written to
\* out[i] .. out[i + 4]. After the last row the fold's carry is set to 0.
AsmRow ==
    /\ op = "mul" /\ target = "x86_64"
    /\ \/ pc = "start" /\ i = 0
       \/ pc = "rows"
    /\ i < N
    /\ \E g \in GarbageSet : \E regs \in {asm_row(Limb(self, i), FpBytes(other), g)} :
         out' = [k \in 1..(2 * N) |->
                   IF k >= i + 1 /\ k <= i + 5 THEN regs[k - i] ELSE out[k]]
    /\ high' = IF i + 1 < N THEN high ELSE SubSeq(out', N + 1, 2 * N)
    /\ carry64' = ZeroLimb
    /\ i' = IF i + 1 < N THEN i + 1 ELSE 0
    /\ pc' = IF i + 1 < N THEN "rows" ELSE "fold"
    /\ UNCHANGED <<target, op, self, other, carry, low, r0, r1, r2, a0, b0, cin,
                   overflowed, adc_pre>>

FoldStepX86 ==
    /\ op = "mul" /\ target = "x86_64" /\ pc = "fold"
    /\ i < 4
    /\ \E res \in {fold_step(carry64, out[i + 1], out[4 + i + 1])} :
           /\ self' = [self EXCEPT ![i + 1] = res.limb]
           /\ carry64' = res.carry
           /\ overflowed' = (overflowed \/ res.overflow)
    /\ i' = i + 1
    /\ pc' = IF i + 1 < 4 THEN "fold" ELSE "done"
    /\ UNCHANGED <<target, op, other, carry, low, r0, r1, r2, out, a0, b0, cin, high,
                   adc_pre>>

\* ------------------------------------------------------------------------
\* The portable MulAssign as a function of its operands: the schedule run
\* to its end, the top limb stored, and the four fold steps.
\* ------------------------------------------------------------------------

RECURSIVE run_schedule(_, _, _)
run_schedule(st, oth, k) ==
    IF k > Len(Schedule) THEN st
    ELSE IF Schedule[k].step = "multiply_in"
    THEN LET x == multiply_in(Limb(st.self, Schedule[k].s), Limb(oth, Schedule[k].o),
                              st.r0, st.r1, st.r2)
         IN  run_schedule([st EXCEPT !.r0 = x.r0, !.r1 = x.r1, !.r2 = x.r2], oth, k + 1)
    ELSE LET x == propagate(st.r0, st.r1, st.r2)
             moved == [st EXCEPT !.r0 = x.r0, !.r1 = x.r1, !.r2 = x.r2]
         IN  run_schedule(IF Schedule[k].to = "low"
                          THEN [moved EXCEPT !.low[Schedule[k].s + 1] = x.limb]
                          ELSE [moved EXCEPT !.self[Schedule[k].s + 1] = x.limb],
                          oth, k + 1)

RECURSIVE run_fold(_, _, _, _)
\* The fold from limb k on: acc holds the limbs written so far.
run_fold(lo, hi, c, acc) ==
    IF Len(acc) = 4 THEN acc
    ELSE LET x == fold_step(c, lo[Len(acc) + 1], hi[Len(acc) + 1])
         IN  run_fold(lo, hi, x.carry, Append(acc, x.limb))

mul_assign_portable(a, b) ==
    LET st == run_schedule([self |-> a, low |-> ZeroFp, r0 |-> ZeroLimb,
                            r1 |-> ZeroLimb, r2 |-> ZeroLimb], b, 1)
    IN  run_fold(st.low, [st.self EXCEPT ![4] = st.r0], ZeroLimb, <<>>)

\* ------------------------------------------------------------------------
\* The program
\* ------------------------------------------------------------------------

Next ==
    \/ AdcCall
    \/ AddStep
    \/ MultiplyInStep
    \/ PropagateStep
    \/ StoreTop
    \/ FoldStep
    \/ AsmRow
    \/ FoldStepX86

Spec == Init /\ [][Next]_vars

\* ------------------------------------------------------------------------
\* Reference arithmetic for the properties: the value of an element, the
\* prime, and reduction modulo it by long division.
\* ------------------------------------------------------------------------

\* x * 2^(8n)
Shl(x, n) == Zeros(n) \o x

\* The integer the limbs of x represent: the sum of limb k * 2^(64k).
FpValue(x) ==
    BigAdd(BigAdd(x[1], Shl(x[2], W64)), BigAdd(Shl(x[3], 2 * W64), Shl(x[4], 3 * W64)))

\* p = 2^255 - 19, and its multiples 2p and 3p.
P == FpBytes(PLimbs)
TwoP == BigAdd(P, P)
ThreeP == BigAdd(TwoP, P)

\* p * 2^k for k in 0..7.
PShifted == [k \in 0..7 |-> BigMul(<<2 ^ k>>, P)]

RECURSIVE ReduceBy(_, _)
\* rem mod p for rem < p * 2^(k + 1), by conditional subtraction of p * 2^k, .., p.
ReduceBy(rem, k) ==
    IF k < 0 \/ Len(rem) = 0 THEN rem
    ELSE ReduceBy(IF BigLess(rem, PShifted[k]) THEN rem ELSE BigSub(rem, PShifted[k]), k - 1)

RECURSIVE ModFrom(_, _, _)
\* Long division of the bytes x[1..j] below a running remainder rem < p.
ModFrom(x, j, rem) ==
    IF j = 0 \/ Len(rem) = 0 THEN rem
    ELSE ModFrom(x, j - 1, Trunc(ReduceBy(<<x[j]>> \o rem, 7), 4 * W64))

\* x mod p.
ModP(x) == ModFrom(x, Len(x), Zeros(4 * W64))

\* The low and the high 256 bits of x.
Low256(x) == Trunc(x, 4 * W64)
High256(x) == Trunc(Above(x, 4 * W64), 4 * W64)

\* The exact product of the operands as given.
Product == BigMul(FpValue(a0), FpValue(b0))

MulDone(t) == op = "mul" /\ target = t /\ pc = "done"

\* The limbs 0 .. k - 1 of x as one number.
RECURSIVE Prefix(_, _)
Prefix(x, k) == IF k = 0 THEN <<>> ELSE Prefix(x, k - 1) \o x[k]

\* The low half the fold reads: out[0..3] on x86_64, low in the portable build.
FoldLow == IF target = "x86_64" THEN SubSeq(out, 1, N) ELSE low

\* ------------------------------------------------------------------------
\* Properties
\* ------------------------------------------------------------------------

\* C1: after a *= b (Fp::mul_assign) the receiver's limbs, read as a
\* little-endian integer, are congruent to a * b modulo p = 2^255 - 19.
\* Stated for the portable build; it fails there because the carry out of
\* the fold is dropped.
C1_MulCongruent ==
    MulDone("portable") => ModP(FpValue(self)) = ModP(Product)

\* C2: for every pair of inputs the x86_64 mul_assign and the portable
\* mul_assign leave the receiver with the identical 4-limb sequence.
C2_PathsAgree ==
    MulDone("x86_64") => self = mul_assign_portable(a0, b0)

\* C3: Fp::add leaves the receiver equal to (a + b) mod 2^256: the carry in of
\* limb 0 is 0, the carry out of limb i is the carry in of limb i + 1, and
\* the carry out of limb 3 is discarded. After i limbs, the limbs written
\* plus carry * 2^(64 i) are the exact sum of the low i limbs of a and b.
C3_AddWraps ==
    op = "add" =>
        /\ carry \in {0, 1}
        /\ other = b0
        /\ \A k \in (i + 1)..N : self[k] = a0[k]
        /\ BigEq(Prefix(self, i) \o <<carry>>, BigAdd(Prefix(a0, i), Prefix(b0, i)))
        /\ pc = "done" =>
             /\ BigEq(FpValue(self), Low256(BigAdd(FpValue(a0), FpValue(b0))))
             /\ (a0 = MaxLow /\ b0 = Small(1)) => self = FpOf(ZeroLimb, U64Of(1), ZeroLimb, ZeroLimb)
             /\ (a0 = AllMax /\ b0 = Small(1)) => self = ZeroFp

\* C3 witness: the full wraparound [u64::MAX; 4] + [1, 0, 0, 0] = [0, 0, 0, 0],
\* with the carry out of limb 3 set and dropped.
C3_Witness ==
    op = "add" /\ pc = "done" /\ a0 = AllMax /\ b0 = Small(1) /\ self = ZeroFp /\ carry = 1

\* C4: for every carry-in in {0, 1} and every a and b, adc writes out and
\* returns carry_out with out + carry_out * 2^64 = a + b + carry_in and
\* carry_out in {0, 1}, in the intrinsic build and in the portable u128 one.
C4_AdcExact ==
    (op = "adc" /\ pc = "done") =>
        /\ carry \in {0, 1}
        /\ BigEq(self[1] \o <<carry>>, BigAdd(BigAdd(a0[1], b0[1]), <<cin>>))

\* C4 witness: the portable adc on u64::MAX + u64::MAX + 1, carrying out.
C4_Witness ==
    /\ op = "adc" /\ pc = "done" /\ target = "portable"
    /\ cin = 1 /\ a0[1] = MAX64 /\ b0[1] = MAX64 /\ self[1] = MAX64 /\ carry = 1

\* C5: no arithmetic step of add or of the portable mul_assign overflows its
\* machine word: `*r2 += carry` stays within u64, every call of adc is made
\* with a carry of 0 or 1, and each fold step fits in 128 bits.
C5_NoOverflow ==
    (op = "add" \/ (op = "mul" /\ target = "portable")) =>
        /\ ~overflowed
        /\ adc_pre
        /\ BigLess(r2, U64Of(4))

\* C5 witness: the column of four products of u64::MAX limbs, where r2 has
\* taken a carry three times.
C5_Witness ==
    /\ op = "mul" /\ target = "portable" /\ pc = "schoolbook"
    /\ a0 = AllMax /\ b0 = AllMax /\ r2 = U64Of(3)

C7_ConstantIdentities ==
    /\ (op = "add" /\ pc = "done" /\ a0 = constant /\ b0 = ZeroFp) => self = constant
    /\ (op = "add" /\ pc = "done" /\ a0 = ZeroFp /\ b0 = constant) => self = constant
    /\ (op = "mul" /\ pc = "done" /\ a0 = constant /\ b0 = Small(1)) =>
           ModP(FpValue(self)) = ModP(FpValue(constant))

\* C8: in the portable mul_assign, just before the fold, (low, self) hold the
\* exact 512-bit product of the operands: no receiver limb is overwritten
\* while a later multiply_in still reads it, and after the last propagate r1
\* and r2 are 0, so that self.limbs[3] = r0 loses nothing.
C8_SchoolbookExact ==
    (op = "mul" /\ target = "portable") =>
        /\ other = b0
        /\ pc \in {"start", "schoolbook", "store_top"} =>
             \A k \in (i + 1)..Len(Schedule) :
                 Schedule[k].step = "multiply_in" =>
                     Limb(self, Schedule[k].s) = Limb(a0, Schedule[k].s)
        /\ pc = "store_top" => (r1 = ZeroLimb /\ r2 = ZeroLimb)
        /\ (pc = "fold" /\ i = 0) => BigEq(FpBytes(low) \o FpBytes(self), Product)

\* C8 witness: the fold about to start on [u64::MAX; 4] squared, the receiver
\* holding the high half of the product.
C8_Witness ==
    /\ op = "mul" /\ target = "portable" /\ pc = "fold" /\ i = 0
    /\ a0 = AllMax /\ b0 = AllMax /\ self # a0
    /\ self = FpOf(MaxLess(1), MAX64, MAX64, MAX64)

\* C9 as claimed: the fold, given low half L and high half H, writes limbs R
\* and ends with a carry c such that R + c * 2^256 = L + 38 * H and c is
\* between 0 and 37. Stated for the portable build.
C9_FoldCarryAtMost37 ==
    MulDone("portable") =>
        /\ BigLess(carry64, U64Of(38))
        /\ BigEq(FpBytes(self) \o carry64,
                 BigAdd(FpValue(FoldLow), BigMul(<<38>>, FpValue(high))))

\* C9 as amended: the fold, given low half L and high half H, writes limbs R
\* and ends with a carry c such that R + c * 2^256 = L + 38 * H and c is
\* between 0 and 38, in either build.
C9_FoldExact ==
    (op = "mul" /\ pc = "done") =>
        /\ BigLess(carry64, U64Of(39))
        /\ BigEq(FpBytes(self) \o carry64,
                 BigAdd(FpValue(FoldLow), BigMul(<<38>>, FpValue(high))))

\* C9 witness: the portable fold ending with the largest carry, 38, on the
\* square of 2^256 - 2^128 + 1.
C9_Witness ==
    /\ MulDone("portable") /\ carry64 = U64Of(38)
    /\ a0 = FpOf(U64Of(1), ZeroLimb, MAX64, MAX64) /\ b0 = a0

\* C10: whenever the exact product is below 2^256, the portable mul_assign
\* leaves the limbs of the product itself: 1 * 1 = 1, 2 * 2 = 4, and
\* x * 1 = x limb for limb.
C10_SmallProductKept ==
    MulDone("portable") =>
        /\ IsZero(High256(Product)) => BigEq(FpBytes(self), Product)
        /\ (a0 = Small(1) /\ b0 = Small(1)) => self = Small(1)
        /\ (a0 = Small(2) /\ b0 = Small(2)) => self = Small(4)
        /\ b0 = Small(1) => self = a0

\* C10 witness: [u64::MAX; 4] * 1, a value above p, kept limb for limb.
C10_Witness ==
    MulDone("portable") /\ a0 = AllMax /\ b0 = Small(1) /\ self = AllMax

====
